---- MODULE Spec2Model ----
(***************************************************************************)
(* Senergy: group voting, ratings and the places-for-you feed.             *)
(*                                                                         *)
(*   - GroupService (senergy-api): one Firestore group document, every     *)
(*     request a get-then-update sequence whose awaits are scheduling      *)
(*     points, so requests interleave between their read and their writes. *)
(*   - the Discord bot's group session (senergy-bot commands/group.ts):    *)
(*     the in-memory session of one planning channel, its three-step vote  *)
(*     menus, and finalizeVoting, which syncs the winner to the API.       *)
(*   - the ranked-choice tally, as the API and as the bot compute it.      *)
(*   - RatingService: the scoring functions, the ratings of a place and    *)
(*     its stored aggregate, and createRating / deleteRating as whole      *)
(*     calls with the search index and the rater's user document.          *)
(*   - GET /api/explore/places, the places-for-you feed.                   *)
(***************************************************************************)
EXTENDS Integers, Sequences, FiniteSets, TLC

VARIABLES
    gExists,      \* the group document exists (groupsCol.add has run)
    createdBy,    \* group.createdBy
    members,      \* group.members (arrayUnion / arrayRemove keep it a set)
    votes,        \* group.votes: member id -> ranked list of place ids
    status,       \* group.status
    finalPlace,   \* group.finalPlace (placeId, placeName, selectedAt, location)
    now,          \* the clock read by new Date() when finalPlace is written
    req,          \* per request slot: the API request in flight
    resp,         \* the error the last API step threw, none when it threw nothing
    sMembers,     \* bot session.members
    sVotes,       \* bot session.votes, a Map in insertion order
    sGroupId,     \* bot session.groupId is set
    sRecs,        \* bot session.recommendations is set
    menu,         \* per user: the vote select menu the bot is showing
    bpc,          \* per user: where that user's handleVoteSelect run stands
    bwin,         \* per user: the winner computed by that run's finalizeVoting
    tVotes,       \* tally check: the votes map handed to both tallies
    tApi,         \* tally check: getVotingResults' result
    tBot,         \* tally check: finalizeVoting's scores and winner
    tDone,        \* tally check: both tallies have been computed
    ratings,      \* the ratings collection: rating id -> rating document
    placeDoc,     \* the place document of the rated place (exists, stats)
    rreq,         \* per request slot: the RatingService request in flight
    scCategories, \* score check: the categories handed to the scoring functions
    scAF,         \* score check: the adjustment factor, in tenths
    scOut,        \* score check: what the scoring functions returned
    fPlaces,      \* feed check: the nearby places, each with its ratings
    fViewerAF,    \* feed check: the viewer's adjustment factor, in tenths
    fOut,         \* feed check: the list GET /places returned
    algolia,      \* the search index: configured, failing or missing
    userDoc,      \* the rater's user document (exists, totalRatingsCount)
    tail,         \* per request slot: what a rating call does after the place stats
    rresp,        \* per request slot: how the slot's last rating call ended
    created       \* the number of createRating calls that have returned

apiVars == <<gExists, createdBy, members, votes, status, finalPlace, now, req, resp>>
botVars == <<sMembers, sVotes, sGroupId, sRecs, menu, bpc, bwin>>
tallyVars == <<tVotes, tApi, tBot, tDone>>
callVars == <<algolia, userDoc, tail, rresp, created>>
ratingVars == <<ratings, placeDoc, rreq, callVars>>
scoreVars == <<scCategories, scAF, scOut>>
feedVars == <<fPlaces, fViewerAF, fOut>>
vars == <<gExists, createdBy, members, votes, status, finalPlace, now, req, resp,
          sMembers, sVotes, sGroupId, sRecs, menu, bpc, bwin,
          tVotes, tApi, tBot, tDone,
          ratings, placeDoc, rreq, scCategories, scAF, scOut, fPlaces, fViewerAF, fOut,
          algolia, userDoc, tail, rresp, created>>

---------------------------------------------------------------------------
(* Bounds and fixed data                                                   *)

Users == {"u1", "u2"}
Creator == "u1"
Slots == {"r1", "r2"}

None == "none"

\* the recommendation list (externally generated); the bot offers its first 3.
\* The third place carries no location.
RecommendedPlaces ==
    << [placeId |-> "A", placeName |-> "nameA", location |-> "locA"],
       [placeId |-> "B", placeName |-> "nameB", location |-> "locB"],
       [placeId |-> "C", placeName |-> "nameC", location |-> None] >>
Places == {RecommendedPlaces[i].placeId : i \in 1..Len(RecommendedPlaces)}

\* castVotes accepts 1..MaxVotes places; the tallies award points to the
\* first MaxVotes ranks
MaxVotes == 3
\* finalPlace is written at most MaxFinalize times in a run
MaxFinalize == 2
\* a member's list in the bot session grows to at most MaxPicks picks
MaxPicks == 4
\* the tally check hands the tallies ballots of up to MaxTallyLen picks
MaxTallyLen == 4
\* the recommendations a caller of finalizeSelection may name: one with a
\* location, one without
FinalizeChoices == {1, 3}

NoFinalPlace == [placeId |-> None, placeName |-> None, selectedAt |-> 0, location |-> None]
NoVotes == [u \in {} |-> <<>>]

\* ballots a caller of castVotes may send: a ranking that cycles through
\* the recommendations, cut at the lengths on either side of both ends
\* of the accepted range
CycleBallot(n) == [i \in 1..n |-> RecommendedPlaces[((i - 1) % Len(RecommendedPlaces)) + 1].placeId]
BallotLengths == {0, 1, MaxVotes, MaxVotes + 1}
CastBallots == {CycleBallot(n) : n \in BallotLengths}

Idle == [op |-> "idle", pc |-> "idle", user |-> None, ballot |-> <<>>,
         snapVotes |-> NoVotes]

ErrLength == "Must vote for 1-3 places"
ErrNotInGroup == "User not in group"
ErrAlreadyIn == "User already in group"
ErrCreatorLeave == "Creator cannot leave group. Disband the group instead."
ErrOnlyCreator == "Only creator can disband group"
Ok == "ok"

---------------------------------------------------------------------------
(* GroupService: one group document.  A request occupies a slot from its   *)
(* read of the document to its last update; the steps of different slots   *)
(* interleave.  Requests that throw before their first update end at once. *)

Without(f, u) == [x \in (DOMAIN f) \ {u} |-> f[x]]
AllIdle == \A s \in Slots : req[s] = Idle
\* a new request takes the first free slot
Free(s) == req[s] = Idle /\ (s = "r2" => req["r1"] # Idle)

Begin(s, r) == req' = [req EXCEPT ![s] = r] /\ resp' = None
Reject(s, err) == resp' = err /\ UNCHANGED req
End(s) == req' = [req EXCEPT ![s] = Idle] /\ resp' = None
Goto(s, pc) == req' = [req EXCEPT ![s].pc = pc] /\ resp' = None

\* createGroup: the creator is always put among the members
CreateGroup(memberIds) ==
    /\ ~gExists
    /\ gExists' = TRUE
    /\ createdBy' = Creator
    /\ members' = memberIds \cup {Creator}
    /\ votes' = NoVotes
    /\ status' = "active"
    /\ resp' = None
    /\ UNCHANGED <<finalPlace, now, req>>

\* addMember: read, reject a user already in the snapshot's members
AddMemberRead(s, userId) ==
    /\ gExists /\ Free(s)
    /\ IF userId \in members
         THEN Reject(s, ErrAlreadyIn)
         ELSE Begin(s, [Idle EXCEPT !.op = "addMember", !.pc = "update", !.user = userId])
    /\ UNCHANGED <<gExists, createdBy, members, votes, status, finalPlace, now>>

\* addMember: update({ members: arrayUnion(id), memberProfiles.id: ... })
AddMemberUpdate(s) ==
    /\ req[s].op = "addMember"
    /\ members' = members \cup {req[s].user}
    /\ End(s)
    /\ UNCHANGED <<gExists, createdBy, votes, status, finalPlace, now>>

\* removeMember: read; the creator may not leave while the snapshot has
\* other members; the snapshot's votes are kept for the second update
CreatorMustStay(userId, snapCreatedBy, snapMembers) ==
    snapCreatedBy = userId /\ Cardinality(snapMembers) > 1

RemoveMemberRead(s, userId) ==
    /\ gExists /\ Free(s)
    /\ IF CreatorMustStay(userId, createdBy, members)
         THEN Reject(s, ErrCreatorLeave)
         ELSE Begin(s, [Idle EXCEPT !.op = "removeMember", !.pc = "update1",
                                     !.user = userId, !.snapVotes = votes])
    /\ UNCHANGED <<gExists, createdBy, members, votes, status, finalPlace, now>>

\* removeMember: update({ members: arrayRemove(id) })
RemoveMemberUpdate1(s) ==
    /\ req[s].op = "removeMember" /\ req[s].pc = "update1"
    /\ members' = members \ {req[s].user}
    /\ Goto(s, "update2")
    /\ UNCHANGED <<gExists, createdBy, votes, status, finalPlace, now>>

\* removeMember: update({ votes: updatedVotes }), the snapshot's votes
\* without the removed member
RemoveMemberUpdate2(s) ==
    /\ req[s].op = "removeMember" /\ req[s].pc = "update2"
    /\ votes' = Without(req[s].snapVotes, req[s].user)
    /\ End(s)
    /\ UNCHANGED <<gExists, createdBy, members, status, finalPlace, now>>

\* castVotes: the length check, then the read of the group and the
\* membership check on that snapshot
ValidLengthLoose(rankedPlaceIds) == ~(Len(rankedPlaceIds) = 0 \/ Len(rankedPlaceIds) > MaxVotes + 1)

ValidLength(rankedPlaceIds) == ~(Len(rankedPlaceIds) = 0 \/ Len(rankedPlaceIds) > MaxVotes)

CastVotesRead(s, userId, rankedPlaceIds) ==
    /\ gExists /\ Free(s)
    /\ IF ~ValidLength(rankedPlaceIds)
         THEN Reject(s, ErrLength)
         ELSE IF userId \notin members
         THEN Reject(s, ErrNotInGroup)
         ELSE Begin(s, [Idle EXCEPT !.op = "castVotes", !.pc = "update",
                                     !.user = userId, !.ballot = rankedPlaceIds])
    /\ UNCHANGED <<gExists, createdBy, members, votes, status, finalPlace, now>>

\* castVotes: update({ `votes.${id}`: rankedPlaceIds })
StoreVote(v, userId, rankedPlaceIds) == (userId :> rankedPlaceIds) @@ v

CastVotesUpdate(s) ==
    /\ req[s].op = "castVotes"
    /\ votes' = StoreVote(votes, req[s].user, req[s].ballot)
    /\ End(s)
    /\ UNCHANGED <<gExists, createdBy, members, status, finalPlace, now>>

\* finalizeSelection: the read of the group feeds only the user stats, so
\* the request is its one update: finalPlace.placeId, .placeName,
\* .selectedAt, .location when one was passed, and status
FinalPlaceWrite(fp, place, time) ==
    [fp EXCEPT !.placeId = place.placeId,
               !.placeName = place.placeName,
               !.selectedAt = time,
               !.location = IF place.location # None THEN place.location ELSE @]

StatusAfterFinalize(oldStatus) == "place_selected"

FinalizeSelection(r) ==
    /\ gExists
    /\ now <= MaxFinalize
    /\ finalPlace' = FinalPlaceWrite(finalPlace, RecommendedPlaces[r], now)
    /\ status' = StatusAfterFinalize(status)
    /\ now' = now + 1
    /\ resp' = None
    /\ UNCHANGED <<gExists, createdBy, members, votes, req>>

\* archiveGroup: a single update, no read
StatusAfterArchive(oldStatus) == "archived"

ArchiveGroup ==
    /\ gExists
    /\ status' = StatusAfterArchive(status)
    /\ resp' = None
    /\ UNCHANGED <<gExists, createdBy, members, votes, finalPlace, now, req>>

DisbandGroupAnyone(userId) ==
    /\ gExists
    /\ resp' = None /\ status' = StatusAfterArchive(status)
    /\ UNCHANGED <<gExists, createdBy, members, votes, finalPlace, now, req>>

\* disbandGroup: only the creator may disband; createdBy never changes, so
\* the read and the update({ status: 'archived' }) are one step
DisbandGroup(userId) ==
    /\ gExists
    /\ IF createdBy # userId
         THEN resp' = ErrOnlyCreator /\ UNCHANGED status
         ELSE resp' = None /\ status' = StatusAfterArchive(status)
    /\ UNCHANGED <<gExists, createdBy, members, votes, finalPlace, now, req>>

---------------------------------------------------------------------------
(* The ranked-choice tally.  A votes map is handed over as the sequence of *)
(* its entries in iteration order (Object.entries of group.votes, the      *)
(* session's Map).                                                         *)

Range(f) == {f[i] : i \in DOMAIN f}
Min(a, b) == IF a < b THEN a ELSE b

ApiPointsShifted(index) == IF index + 2 <= MaxVotes THEN <<3, 2, 1>>[index + 2] ELSE 0

\* getVotingResults: [3, 2, 1][index] || 0, index counted from 0
ApiPoints(index) == IF index + 1 <= MaxVotes THEN <<3, 2, 1>>[index + 1] ELSE 0

\* getVotingResults: one ranked place of one member folded into results
ApiAddPick(results, userId, placeId, index) ==
    LET cur == IF placeId \in DOMAIN results
                 THEN results[placeId]
                 ELSE [score |-> 0, votes |-> <<>>]
    IN  (placeId :> [score |-> cur.score + ApiPoints(index),
                     votes |-> Append(cur.votes, [userId |-> userId, rank |-> index + 1])])
        @@ results

RECURSIVE ApiAddBallot(_, _, _, _)
ApiAddBallot(results, userId, rankedPlaces, index) ==
    IF index >= Len(rankedPlaces)
      THEN results
      ELSE ApiAddBallot(ApiAddPick(results, userId, rankedPlaces[index + 1], index),
                        userId, rankedPlaces, index + 1)

RECURSIVE ApiTally(_, _)
ApiTally(results, entries) ==
    IF entries = <<>>
      THEN results
      ELSE ApiTally(ApiAddBallot(results, Head(entries).userId, Head(entries).picks, 0),
                    Tail(entries))

GetVotingResults(entries) == ApiTally(<<>>, entries)

\* finalizeVoting: [3, 2, 1][index] || 0
BotPoints(index) == IF index + 1 <= MaxVotes THEN <<3, 2, 1>>[index + 1] ELSE 0

\* finalizeVoting: scores.set(placeId, (scores.get(placeId) || 0) + points);
\* the Map keeps its keys in the order they were first set
BotAddPick(scores, placeId, index) ==
    IF \E k \in 1..Len(scores) : scores[k].placeId = placeId
      THEN [k \in 1..Len(scores) |->
              IF scores[k].placeId = placeId
                THEN [scores[k] EXCEPT !.score = @ + BotPoints(index)]
                ELSE scores[k]]
      ELSE Append(scores, [placeId |-> placeId, score |-> 0 + BotPoints(index)])

RECURSIVE BotAddBallot(_, _, _)
BotAddBallot(scores, rankedPlaces, index) ==
    IF index >= Len(rankedPlaces)
      THEN scores
      ELSE BotAddBallot(BotAddPick(scores, rankedPlaces[index + 1], index),
                        rankedPlaces, index + 1)

RECURSIVE BotTally(_, _)
BotTally(scores, entries) ==
    IF entries = <<>>
      THEN scores
      ELSE BotTally(BotAddBallot(scores, Head(entries).picks, 0), Tail(entries))

BotScores(entries) == BotTally(<<>>, entries)

\* finalizeVoting: sortedResults[0] after the stable sort by descending
\* score, which is the first entry, in Map order, holding the highest score
BotWinner(scores) ==
    LET best == CHOOSE k \in 1..Len(scores) :
                   /\ \A j \in 1..Len(scores) : scores[j].score <= scores[k].score
                   /\ \A j \in 1..(k - 1) : scores[j].score < scores[k].score
    IN  scores[best].placeId

---------------------------------------------------------------------------
(* The bot's group session of one channel.  A run of handleVoteSelect      *)
(* yields at each await, so the runs of different users interleave.        *)

NoMenu == [step |-> 0, options |-> {}]
Offered == {RecommendedPlaces[i].placeId : i \in 1..Min(3, Len(RecommendedPlaces))}
RecIndex(placeId) == CHOOSE i \in 1..Len(RecommendedPlaces) : RecommendedPlaces[i].placeId = placeId

HasVoted(sv, u) == \E i \in 1..Len(sv) : sv[i].userId = u
PicksOf(sv, u) == IF HasVoted(sv, u)
                    THEN sv[CHOOSE i \in 1..Len(sv) : sv[i].userId = u].picks
                    ELSE <<>>

\* handleVoteSelect: session.votes.set(id, []) when absent, then push
PushPick(sv, u, placeId) ==
    IF HasVoted(sv, u)
      THEN [i \in 1..Len(sv) |->
              IF sv[i].userId = u THEN [sv[i] EXCEPT !.picks = Append(@, placeId)] ELSE sv[i]]
      ELSE Append(sv, [userId |-> u, picks |-> <<placeId>>])

\* handleAddMemberSelect: the user joins the session; the first time the
\* session has two members the group is created in the API, when the
\* members' location data allows it
BotAddMember(u, canCreate) ==
    /\ u \notin sMembers
    /\ sMembers' = sMembers \cup {u}
    /\ IF canCreate /\ ~sGroupId
         THEN CreateGroup(sMembers') /\ sGroupId' = TRUE
         ELSE UNCHANGED <<apiVars, sGroupId>>
    /\ UNCHANGED <<sVotes, sRecs, menu, bpc, bwin>>

\* handleGenerateRecommendations: needs two members; creates the group as a
\* fallback; stores the recommendations in the session
BotGenerateRecommendations ==
    /\ Cardinality(sMembers) >= 2
    /\ ~sRecs
    /\ IF ~sGroupId
         THEN CreateGroup(sMembers) /\ sGroupId' = TRUE
         ELSE UNCHANGED <<apiVars, sGroupId>>
    /\ sRecs' = TRUE
    /\ UNCHANGED <<sMembers, sVotes, menu, bpc, bwin>>

\* handleVote: a member is shown the first-choice menu with the first
\* three recommendations
HandleVote(u) ==
    /\ sRecs
    /\ u \in sMembers
    /\ bpc[u] = "idle"
    /\ menu' = [menu EXCEPT ![u] = [step |-> 1, options |-> Offered]]
    /\ UNCHANGED <<apiVars, sMembers, sVotes, sGroupId, sRecs, bpc, bwin>>

\* handleVoteSelect: the pick is pushed onto the member's list; before the
\* third step the next menu offers the places not yet in the list (a menu
\* without options cannot be sent: the old one stays); at the third step
\* the menu is closed and the run goes on to the all-voted check
HandleVoteSelect(u, placeId) ==
    /\ menu[u].step >= 1
    /\ placeId \in menu[u].options
    /\ bpc[u] = "idle"
    /\ Len(PicksOf(sVotes, u)) < MaxPicks
    /\ sVotes' = PushPick(sVotes, u, placeId)
    /\ IF menu[u].step < 3
         THEN LET left == Offered \ Range(PicksOf(sVotes', u))
              IN  /\ menu' = IF left = {}
                               THEN menu
                               ELSE [menu EXCEPT ![u] = [step |-> menu[u].step + 1, options |-> left]]
                  /\ UNCHANGED bpc
         ELSE /\ menu' = [menu EXCEPT ![u] = NoMenu]
              /\ bpc' = [bpc EXCEPT ![u] = "check"]
    /\ UNCHANGED <<apiVars, sMembers, sGroupId, sRecs, bwin>>

\* handleVoteSelect: if (session.votes.size === session.members.size)
AllVoted(sv, sm) == Len(sv) = Cardinality(sm)

HandleVoteSelectCheck(u) ==
    /\ bpc[u] = "check"
    /\ bpc' = [bpc EXCEPT ![u] = IF AllVoted(sVotes, sMembers) THEN "tally" ELSE "idle"]
    /\ UNCHANGED <<apiVars, sMembers, sVotes, sGroupId, sRecs, menu, bwin>>

\* finalizeVoting: after the channel fetch, the scores and the winner are
\* computed from the session's votes as they are then
FinalizeVotingTally(u) ==
    /\ bpc[u] = "tally"
    /\ bwin' = [bwin EXCEPT ![u] = RecIndex(BotWinner(BotScores(sVotes)))]
    /\ bpc' = [bpc EXCEPT ![u] = IF sGroupId THEN "sync" ELSE "idle"]
    /\ UNCHANGED <<apiVars, sMembers, sVotes, sGroupId, sRecs, menu>>

\* finalizeVoting: api.finalizeSelection(token, groupId, winner...); what
\* follows only sends messages
FinalizeVotingSync(u) ==
    /\ bpc[u] = "sync"
    /\ FinalizeSelection(bwin[u])
    /\ bpc' = [bpc EXCEPT ![u] = "idle"]
    /\ UNCHANGED <<sMembers, sVotes, sGroupId, sRecs, menu, bwin>>

---------------------------------------------------------------------------
(* The tally check: a votes map is drawn, both tallies are applied to it.  *)

TallyVoters == <<"u1", "u2", "u3">>

\* the ballots handed to the tallies: every ordering of the places,
\* continued cyclically, cut at every length from 1 to MaxTallyLen
Orderings == {o \in [1..Cardinality(Places) -> Places] : \A i, j \in DOMAIN o : i # j => o[i] # o[j]}
TallyBallots ==
    {[i \in 1..n |-> o[((i - 1) % Cardinality(Places)) + 1]] : o \in Orderings, n \in 1..MaxTallyLen}

ComputeTally ==
    /\ ~tDone
    /\ tApi' = GetVotingResults(tVotes)
    /\ tBot' = [scores |-> BotScores(tVotes), winner |-> BotWinner(BotScores(tVotes))]
    /\ tDone' = TRUE
    /\ UNCHANGED tVotes

---------------------------------------------------------------------------
(* Specifications                                                          *)

ApiInit ==
    /\ gExists = FALSE
    /\ createdBy = None
    /\ members = {}
    /\ votes = NoVotes
    /\ status = None
    /\ finalPlace = NoFinalPlace
    /\ now = 1
    /\ req = [s \in Slots |-> Idle]
    /\ resp = None

BotIdleInit ==
    /\ sMembers = {}
    /\ sVotes = <<>>
    /\ sGroupId = FALSE
    /\ sRecs = FALSE
    /\ menu = [u \in Users |-> NoMenu]
    /\ bpc = [u \in Users |-> "idle"]
    /\ bwin = [u \in Users |-> 0]

TallyIdleInit ==
    /\ tVotes = <<>>
    /\ tApi = <<>>
    /\ tBot = <<>>
    /\ tDone = FALSE

CallIdleInit ==
    /\ algolia = "configured"
    /\ userDoc = [exists |-> FALSE, totalRatingsCount |-> 0]
    /\ tail = <<>>
    /\ rresp = <<>>
    /\ created = 0

RatingIdleInit ==
    /\ ratings = <<>>
    /\ placeDoc = [exists |-> FALSE, stats |-> <<>>]
    /\ rreq = <<>>
    /\ CallIdleInit

ScoreIdleInit ==
    /\ scCategories = <<>>
    /\ scAF = 0
    /\ scOut = <<>>

FeedIdleInit ==
    /\ fPlaces = <<>>
    /\ fViewerAF = 0
    /\ fOut = [route |-> "none", data |-> <<>>]

BotOff == UNCHANGED <<botVars, tallyVars, ratingVars, scoreVars, feedVars>>

\* Spec: the API's group document under interleaved requests
Init == ApiInit /\ BotIdleInit /\ TallyIdleInit /\ RatingIdleInit /\ ScoreIdleInit /\ FeedIdleInit

Next ==
    \/ \E m \in SUBSET Users : CreateGroup(m) /\ BotOff
    \/ \E s \in Slots, u \in Users : AddMemberRead(s, u) /\ BotOff
    \/ \E s \in Slots : AddMemberUpdate(s) /\ BotOff
    \/ \E s \in Slots, u \in Users : RemoveMemberRead(s, u) /\ BotOff
    \/ \E s \in Slots : RemoveMemberUpdate1(s) /\ BotOff
    \/ \E s \in Slots : RemoveMemberUpdate2(s) /\ BotOff
    \/ \E s \in Slots, u \in Users, b \in CastBallots : CastVotesRead(s, u, b) /\ BotOff
    \/ \E s \in Slots : CastVotesUpdate(s) /\ BotOff
    \/ \E r \in FinalizeChoices : FinalizeSelection(r) /\ BotOff
    \/ ArchiveGroup /\ BotOff
    \/ \E u \in Users : DisbandGroup(u) /\ BotOff

Spec == Init /\ [][Next]_vars

\* BotSpec: the bot's session, from the session execute() creates, with the
\* API calls the bot makes
BotInit ==
    /\ ApiInit
    /\ sMembers = {Creator}
    /\ sVotes = <<>>
    /\ sGroupId = FALSE
    /\ sRecs = FALSE
    /\ menu = [u \in Users |-> NoMenu]
    /\ bpc = [u \in Users |-> "idle"]
    /\ bwin = [u \in Users |-> 0]
    /\ TallyIdleInit /\ RatingIdleInit /\ ScoreIdleInit /\ FeedIdleInit

BotNext ==
    \/ \E u \in Users, c \in BOOLEAN : BotAddMember(u, c) /\ UNCHANGED <<tallyVars, ratingVars, scoreVars, feedVars>>
    \/ BotGenerateRecommendations /\ UNCHANGED <<tallyVars, ratingVars, scoreVars, feedVars>>
    \/ \E u \in Users : HandleVote(u) /\ UNCHANGED <<tallyVars, ratingVars, scoreVars, feedVars>>
    \/ \E u \in Users, p \in Places : HandleVoteSelect(u, p) /\ UNCHANGED <<tallyVars, ratingVars, scoreVars, feedVars>>
    \/ \E u \in Users : HandleVoteSelectCheck(u) /\ UNCHANGED <<tallyVars, ratingVars, scoreVars, feedVars>>
    \/ \E u \in Users : FinalizeVotingTally(u) /\ UNCHANGED <<tallyVars, ratingVars, scoreVars, feedVars>>
    \/ \E u \in Users : FinalizeVotingSync(u) /\ UNCHANGED <<tallyVars, ratingVars, scoreVars, feedVars>>

BotSpec == BotInit /\ [][BotNext]_vars

\* TallySpec: both tallies applied to every votes map of the three voters
TallyInit ==
    /\ ApiInit
    /\ BotIdleInit
    /\ tVotes \in {[k \in 1..Len(TallyVoters) |-> [userId |-> TallyVoters[k], picks |-> b[k]]] :
                      b \in [1..Len(TallyVoters) -> TallyBallots]}
    /\ tApi = <<>>
    /\ tBot = <<>>
    /\ tDone = FALSE
    /\ RatingIdleInit /\ ScoreIdleInit /\ FeedIdleInit

TallyNext == ComputeTally /\ UNCHANGED <<apiVars, botVars, ratingVars, scoreVars, feedVars>>

TallySpec == TallyInit /\ [][TallyNext]_vars

---------------------------------------------------------------------------
(* Claims about GroupService, checked under Spec                           *)

Terminal == {"place_selected", "archived"}

\* C1: the status starts as active and, once it is place_selected or
\* archived, never changes again (and so never returns to active).
C1_StatusTerminal ==
    [][/\ (~gExists /\ gExists') => status' = "active"
       /\ status \in Terminal => status' = status]_vars

\* C3: once every current member of an active group has a vote recorded,
\* the group is finalized without any further request: with no request in
\* flight, a group whose vote keys are exactly its members is not active.
C3_AutoFinalize ==
    (gExists /\ AllIdle /\ members # {} /\ DOMAIN votes = members)
        => (status = "place_selected" /\ finalPlace.placeId # None)

\* C4: finalizeSelection on a group that is already place_selected or
\* archived leaves status and finalPlace as they were.
C4_FinalizeTerminalNoOp ==
    [][\A r \in FinalizeChoices :
          (FinalizeSelection(r) /\ status \in Terminal)
              => (status' = status /\ finalPlace' = finalPlace)]_vars

\* C5: castVotes with a ranked list of length 0 or more than 3, or by a
\* caller who is not a member, is rejected (it throws, and no request is
\* left that would write) and the votes map is unchanged.
C5_CastVotesRejects ==
    [][\A s \in Slots, u \in Users, b \in CastBallots :
          (CastVotesRead(s, u, b) /\ (Len(b) = 0 \/ Len(b) > 3 \/ u \notin members))
              => /\ resp' = (IF Len(b) = 0 \/ Len(b) > 3 THEN ErrLength ELSE ErrNotInGroup)
                 /\ req'[s] = Idle
                 /\ votes' = votes]_vars

\* C5 witness: a non-member's vote has just been rejected while another
\* member's vote is on record.
C5_Witness ==
    /\ resp = ErrNotInGroup
    /\ DOMAIN votes # {}
    /\ AllIdle

\* C6: castVotes against a group that is not active is rejected and the
\* votes map stays as it was.
C6_CastVotesConflict ==
    [][/\ \A s \in Slots, u \in Users, b \in CastBallots :
             (CastVotesRead(s, u, b) /\ status # "active")
                 => (resp' # None /\ req'[s] = Idle)
       /\ \A s \in Slots :
             (CastVotesUpdate(s) /\ status # "active") => votes' = votes]_vars

\* C7: every key of the votes map is a current member.  Stated for the
\* states in which no request is in flight, so that the gap between
\* removeMember's two updates is not what refutes it.
C7_VoteKeysAreMembers ==
    AllIdle => DOMAIN votes \subseteq members

---------------------------------------------------------------------------
(* Claims about the bot's session, checked under BotSpec                   *)

\* the finalize call handler o is about to make would write finalPlace
PendingFinalizeWrites(o) ==
    ENABLED (FinalizeVotingSync(o) /\ finalPlace' # finalPlace)

\* C2: when two members' last-vote handlers have both seen every member
\* as having voted and both are about to finalize an active group, the
\* transition fires once: after one of them has written finalPlace, the
\* other's finalize call does not write it again.
C2_FinalizeOnce ==
    [][\A u \in Users, o \in Users :
          (/\ u # o
           /\ status = "active"
           /\ bpc[u] = "sync" /\ bpc[o] = "sync"
           /\ FinalizeVotingSync(u))
              => ~PendingFinalizeWrites(o)']_vars

\* C8: every recorded ranked list has between 1 and 3 entries, in the
\* API's group.votes and in the bot's session.votes.
C8_BallotLengths ==
    /\ \A u \in DOMAIN votes : Len(votes[u]) \in 1..3
    /\ \A i \in 1..Len(sVotes) : Len(sVotes[i].picks) \in 1..3

\* C9: re-voting replaces and does not merge: when a member who has cast
\* a full ballot begins another, the first pick of the new ballot is alone
\* in the member's list, and the other members' lists are as they were.
C9_RevoteReplaces ==
    [][\A u \in Users, p \in Places :
          (/\ HandleVoteSelect(u, p)
           /\ menu[u].step = 1
           /\ Len(PicksOf(sVotes, u)) >= MaxVotes)
              => /\ PicksOf(sVotes', u) = <<p>>
                 /\ \A o \in Users \ {u} : PicksOf(sVotes', o) = PicksOf(sVotes, o)]_vars

---------------------------------------------------------------------------
(* Claims about the tally, checked under TallySpec                         *)

RankPoints(rank) == CASE rank = 1 -> 3 [] rank = 2 -> 2 [] rank = 3 -> 1 [] OTHER -> 0

\* the (entry, rank) pairs at which place p is named
Namings(entries, p) ==
    UNION {{<<k, j>> : j \in {j \in 1..Len(entries[k].picks) : entries[k].picks[j] = p}} :
             k \in 1..Len(entries)}

RECURSIVE SumRankPoints(_)
SumRankPoints(S) ==
    IF S = {} THEN 0
    ELSE LET x == CHOOSE x \in S : TRUE
         IN  RankPoints(x[2]) + SumRankPoints(S \ {x})

ExpectedScore(entries, p) == SumRankPoints(Namings(entries, p))
Named(entries) == {p \in Places : Namings(entries, p) # {}}

ScenarioC ==
    << [userId |-> "u1", picks |-> <<"A", "B", "C">>],
       [userId |-> "u2", picks |-> <<"B", "A", "C">>],
       [userId |-> "u3", picks |-> <<"A", "C", "B">>] >>

\* C10: each place's score is the sum over all ranked lists of 3, 2, 1
\* points for ranks 1, 2, 3 and 0 for later ranks; getVotingResults and
\* finalizeVoting give the same scores; for [A,B,C], [B,A,C], [A,C,B] the
\* scores are A=8, B=6, C=4 and the winner is A.
C10_TallyScores ==
    tDone =>
        /\ DOMAIN tApi = Named(tVotes)
        /\ \A p \in DOMAIN tApi : tApi[p].score = ExpectedScore(tVotes, p)
        /\ {tBot.scores[k].placeId : k \in 1..Len(tBot.scores)} = Named(tVotes)
        /\ Len(tBot.scores) = Cardinality(Named(tVotes))
        /\ \A k \in 1..Len(tBot.scores) :
              /\ tBot.scores[k].score = ExpectedScore(tVotes, tBot.scores[k].placeId)
              /\ tBot.scores[k].score = tApi[tBot.scores[k].placeId].score
        /\ tVotes = ScenarioC =>
              /\ tApi["A"].score = 8 /\ tApi["B"].score = 6 /\ tApi["C"].score = 4
              /\ tBot.winner = "A"

\* C10 witness: the three ballots of the scenario have been tallied.
C10_Witness ==
    /\ tDone
    /\ tVotes = ScenarioC
    /\ tBot.winner = "A"

---------------------------------------------------------------------------
(* The winner and the order in which the votes were recorded (BotSpec)     *)

\* the same votes map, recorded in the order of TallyVoters
RecordedInOrder(sv) ==
    LET voted == SelectSeq(TallyVoters, LAMBDA u : HasVoted(sv, u))
    IN  [k \in 1..Len(voted) |-> [userId |-> voted[k], picks |-> PicksOf(sv, voted[k])]]

\* C11: the winner is chosen by a rule that does not depend on the order
\* in which the members' votes were recorded: the winner a finalizeVoting
\* run has computed is the winner the same votes give when recorded in
\* another order.
C11_WinnerOrderIndependent ==
    [][\A u \in Users :
          FinalizeVotingTally(u)
              => bwin'[u] = RecIndex(BotWinner(BotScores(RecordedInOrder(sVotes))))]_vars

---------------------------------------------------------------------------
(* RatingService: scoring.  Category values are integers 1..10.            *)
(* Adjustment factors are carried in tenths (-0.2 is -2), weights and      *)
(* weighted sums in hundredths, scores in tenths (6.8 is 68).              *)

CategoryKeys == {"crowdSize", "noiseLevel", "socialEnergy", "service", "atmosphere"}
PersonalitySensitive == {"crowdSize", "noiseLevel", "socialEnergy"}

\* calculateOverallScore: const weights
Weights == [atmosphere |-> 25, socialEnergy |-> 25, crowdSize |-> 15, noiseLevel |-> 15, service |-> 20]

\* adjustmentFactor <= -0.2
IsIntrovert(adjustmentFactor) == adjustmentFactor <= -2

InvertNever(categories, adjustmentFactor) == categories

\* adjustCategoriesForPersonality
AdjustCategoriesForPersonality(categories, adjustmentFactor) ==
    IF IsIntrovert(adjustmentFactor)
      THEN [k \in CategoryKeys |->
              IF k \in PersonalitySensitive THEN 11 - categories[k] ELSE categories[k]]
      ELSE categories

\* normalizeCategoriesToObjective
NormalizeCategoriesToObjective(categories, raterAdjustmentFactor) ==
    IF IsIntrovert(raterAdjustmentFactor)
      THEN [k \in CategoryKeys |->
              IF k \in PersonalitySensitive THEN 11 - categories[k] ELSE categories[k]]
      ELSE categories

\* adjustCategoriesForViewer
AdjustCategoriesForViewer(normalizedCategories, viewerAdjustmentFactor) ==
    AdjustCategoriesForPersonality(normalizedCategories, viewerAdjustmentFactor)

WeightedHeavy(c) ==
    c.crowdSize * 25 + c.noiseLevel * 25 + c.socialEnergy * Weights.socialEnergy
        + c.service * Weights.service + c.atmosphere * Weights.atmosphere

WeightedSwapped(c) ==
    c.crowdSize * Weights.atmosphere + c.noiseLevel * Weights.noiseLevel
        + c.socialEnergy * Weights.socialEnergy + c.service * Weights.service
        + c.atmosphere * Weights.crowdSize

\* calculateOverallScore: const weighted, in hundredths
Weighted(c) ==
    c.crowdSize * Weights.crowdSize + c.noiseLevel * Weights.noiseLevel
        + c.socialEnergy * Weights.socialEnergy + c.service * Weights.service
        + c.atmosphere * Weights.atmosphere

\* Math.round(x * 10) / 10 for x = num / den tenths, as the set of values
\* it can return.  The operands are binary floating-point numbers: a
\* quotient that is exactly halfway between two tenths is computed either
\* at the half (rounded up) or just below it (rounded down); any other
\* quotient is rounded to the nearest tenth.
RoundTenth(num, den) ==
    LET f == num \div den
        r == num % den
    IN  IF 2 * r < den THEN {f}
        ELSE IF 2 * r > den THEN {f + 1}
        ELSE {f, f + 1}

\* calculateOverallScore: the scores (in tenths) the call can return
CalculateOverallScore(categories, raterAdjustmentFactor) ==
    RoundTenth(Weighted(AdjustCategoriesForPersonality(categories, raterAdjustmentFactor)), 10)

\* calculateAdjustedScoreForViewer
CalculateAdjustedScoreForViewer(ratingCategories, raterAdjustmentFactor, viewerAdjustmentFactor) ==
    CalculateOverallScore(
        AdjustCategoriesForViewer(
            NormalizeCategoriesToObjective(ratingCategories, raterAdjustmentFactor),
            viewerAdjustmentFactor),
        0)

\* getPersonalityBucket
GetPersonalityBucket(adjustmentFactor) ==
    IF adjustmentFactor <= -2 THEN "introvert"
    ELSE IF adjustmentFactor >= 2 THEN "extrovert"
    ELSE "ambivert"

Cat(c, n, s, v, a) ==
    [crowdSize |-> c, noiseLevel |-> n, socialEnergy |-> s, service |-> v, atmosphere |-> a]

\* the category values and adjustment factors the score check draws from
CategoryValues == {1, 5, 6, 7, 8, 10}
AFValues == {-10, -5, -2, -1, 0, 2, 10}

\* the score check: one vector and one factor are drawn, every scoring
\* function is applied to them
ScoreInit ==
    /\ ApiInit /\ BotIdleInit /\ TallyIdleInit /\ RatingIdleInit /\ FeedIdleInit
    /\ scCategories \in [CategoryKeys -> CategoryValues]
    /\ scAF \in AFValues
    /\ scOut = <<>>

ComputeScore ==
    /\ scOut = <<>>
    /\ \E o \in CalculateOverallScore(scCategories, scAF),
          v \in CalculateAdjustedScoreForViewer(scCategories, scAF, scAF) :
          scOut' = [normalized |-> NormalizeCategoriesToObjective(scCategories, scAF),
                    roundTrip |-> AdjustCategoriesForViewer(
                                     NormalizeCategoriesToObjective(scCategories, scAF), scAF),
                    adjusted |-> AdjustCategoriesForPersonality(scCategories, scAF),
                    overall |-> o,
                    forSelf |-> v]
    /\ UNCHANGED <<scCategories, scAF>>

ScoreNext == ComputeScore /\ UNCHANGED <<apiVars, botVars, tallyVars, ratingVars, feedVars>>

ScoreSpec == ScoreInit /\ [][ScoreNext]_vars

ScoreDone == scOut # <<>>
ScenarioCategories == Cat(6, 5, 7, 7, 8)

\* C15: normalizing a category vector for a rater and adjusting the result
\* for a viewer of the same adjustment factor gives the vector back, in
\* all five dimensions.
C15_RoundTrip ==
    ScoreDone => \A k \in CategoryKeys : scOut.roundTrip[k] = scCategories[k]

\* C15 witness: an introvert's vector, whose sensitive dimensions were
\* inverted on the way, has come back.
C15_Witness ==
    /\ ScoreDone
    /\ IsIntrovert(scAF)
    /\ scOut.normalized # scCategories
    /\ scOut.roundTrip = scCategories

\* C16: the overall score of categories in 1..10 lies in [1, 10]
\* (10..100 tenths), whatever the adjustment factor.
C16_ScoreRange ==
    ScoreDone => scOut.overall \in 10..100

\* C16 witness: the extremes are reached, 1.0 and 10.0.
C16_Witness ==
    /\ ScoreDone
    /\ scCategories = Cat(10, 10, 10, 1, 1)
    /\ IsIntrovert(scAF)
    /\ scOut.overall = 10

\* C17: for a rater who is not an introvert the overall score is the
\* weighted sum .25 atmosphere + .25 socialEnergy + .15 crowdSize
\* + .15 noiseLevel + .20 service of the submitted categories rounded to
\* one decimal (at most half a tenth away); the scenario vector with
\* factor 0 scores 6.8.
C17_WeightedSum ==
    (ScoreDone /\ scAF > -2) =>
        LET h == 25 * scCategories.atmosphere + 25 * scCategories.socialEnergy
                 + 15 * scCategories.crowdSize + 15 * scCategories.noiseLevel
                 + 20 * scCategories.service
        IN  /\ 10 * scOut.overall - h \in -5..5
            /\ (scCategories = ScenarioCategories /\ scAF = 0) => scOut.overall = 68

\* C17 witness: the scenario has been scored for factor 0.
C17_Witness ==
    /\ ScoreDone
    /\ scCategories = ScenarioCategories
    /\ scAF = 0
    /\ scOut.overall = 68

\* C18: for the scenario vector and factor -0.5 the adjusted categories are
\* crowdSize 5, noiseLevel 6, socialEnergy 4, service and atmosphere as
\* submitted, and the overall score is 6.05 (60.5 tenths).
C18_IntrovertScenario ==
    (ScoreDone /\ scCategories = ScenarioCategories /\ scAF = -5) =>
        /\ scOut.adjusted = Cat(5, 6, 4, 7, 8)
        /\ 10 * scOut.overall = 605

---------------------------------------------------------------------------
(* RatingService: the ratings of one place and the place document.  Every  *)
(* call is a sequence of Firestore reads and writes whose awaits are       *)
(* scheduling points.  Document timestamps, the comment and the Algolia    *)
(* and user-document writes that follow the place write are not carried.   *)

\* createRating is called at most MaxRatings times
MaxRatings == 2

NoCategories == Cat(0, 0, 0, 0, 0)
\* a rating document that has been deleted
NoRating == [categories |-> NoCategories, userAdjustmentFactor |-> 0, overallScore |-> 0]
NoStats == <<>>
\* an update that carries no userAdjustmentFactor
NoAF == {}
RIdle == [op |-> "idle", pc |-> "idle", id |-> 0, categories |-> NoCategories, af |-> NoAF,
          exists |-> FALSE, stats |-> NoStats]

\* what callers submit: two category vectors, an introvert and an ambivert
RatedCategories == {ScenarioCategories, Cat(1, 1, 1, 5, 5)}
RaterAFs == {-5, 0}

\* getPlaceRatings: the ids of the rating documents that exist
Existing(rs) == {i \in 1..Len(rs) : rs[i] # NoRating}

RECURSIVE SumScores(_, _)
SumScores(rs, S) ==
    IF S = {} THEN 0
    ELSE LET i == CHOOSE i \in S : TRUE
         IN  rs[i].overallScore + SumScores(rs, S \ {i})

RECURSIVE SumCategory(_, _, _)
SumCategory(rs, S, k) ==
    IF S = {} THEN 0
    ELSE LET i == CHOOSE i \in S : TRUE
         IN  rs[i].categories[k] + SumCategory(rs, S \ {i}, k)

InBucket(rs, b) ==
    {i \in Existing(rs) : GetPersonalityBucket(rs[i].userAdjustmentFactor) = b}

\* Math.round(x * 10) / 10 of a quotient of integers, in tenths: such a
\* quotient that is halfway is exact in floating point and rounds up
RoundHalfUp(num, den) == (2 * num + den) \div (2 * den)

\* calculatePlaceStats: a bucket's average, 0 while the bucket is empty
BucketAverages(rs, b) ==
    IF InBucket(rs, b) = {} THEN {0}
    ELSE RoundTenth(SumScores(rs, InBucket(rs, b)), Cardinality(InBucket(rs, b)))

AvgCategories(rs) ==
    [k \in CategoryKeys |->
        RoundHalfUp(10 * SumCategory(rs, Existing(rs), k), Cardinality(Existing(rs)))]

StatsOfFirstOnly(rs) ==
    LET i == CHOOSE i \in Existing(rs) : TRUE
    IN  {[totalRatings |-> 1,
          avgOverallScore |-> rs[i].overallScore,
          byPersonality |-> [b \in {"introvert", "ambivert", "extrovert"} |->
              IF i \in InBucket(rs, b) THEN [avgScore |-> rs[i].overallScore, count |-> 1]
              ELSE [avgScore |-> 0, count |-> 0]],
          avgCategories |-> [k \in CategoryKeys |-> 10 * rs[i].categories[k]]]}

\* calculatePlaceStats: the stats (scores in tenths) the call can return
CalculatePlaceStats(rs) ==
    IF Existing(rs) = {}
      THEN {[totalRatings |-> 0,
             avgOverallScore |-> 0,
             byPersonality |-> [b \in {"introvert", "ambivert", "extrovert"} |->
                                   [avgScore |-> 0, count |-> 0]],
             avgCategories |-> [k \in CategoryKeys |-> 0]]}
      ELSE {[totalRatings |-> Cardinality(Existing(rs)),
             avgOverallScore |-> a,
             byPersonality |->
                 [introvert |-> [avgScore |-> bi, count |-> Cardinality(InBucket(rs, "introvert"))],
                  ambivert |-> [avgScore |-> ba, count |-> Cardinality(InBucket(rs, "ambivert"))],
                  extrovert |-> [avgScore |-> be, count |-> Cardinality(InBucket(rs, "extrovert"))]],
             avgCategories |-> AvgCategories(rs)] :
                a \in RoundTenth(SumScores(rs, Existing(rs)), Cardinality(Existing(rs))),
                bi \in BucketAverages(rs, "introvert"),
                ba \in BucketAverages(rs, "ambivert"),
                be \in BucketAverages(rs, "extrovert")}

RAllIdle == \A s \in Slots : rreq[s] = RIdle
\* a new request takes the first free slot
RFree(s) == rreq[s] = RIdle /\ (s = "r2" => rreq["r1"] # RIdle)
REnd(s) == rreq' = [rreq EXCEPT ![s] = RIdle]

\* createRating: the score is computed and the rating document is set
CreateRating(s, categories, userAdjustmentFactor) ==
    /\ RFree(s)
    /\ Len(ratings) < MaxRatings
    /\ \E o \in CalculateOverallScore(categories, userAdjustmentFactor) :
          ratings' = Append(ratings, [categories |-> categories,
                                      userAdjustmentFactor |-> userAdjustmentFactor,
                                      overallScore |-> o])
    /\ rreq' = [rreq EXCEPT ![s] = [RIdle EXCEPT !.op = "createRating", !.pc = "getPlace",
                                                 !.id = Len(ratings) + 1]]
    /\ UNCHANGED placeDoc

\* updatePlaceStats: const placeDoc = await this.placesCol.doc(placeId).get()
UpdatePlaceStatsGetPlace(s) ==
    /\ rreq[s].pc = "getPlace"
    /\ rreq' = [rreq EXCEPT ![s].exists = placeDoc.exists, ![s].pc = "getRatings"]
    /\ UNCHANGED <<ratings, placeDoc>>

\* updatePlaceStats: the ratings are read and the stats calculated
UpdatePlaceStatsGetRatings(s) ==
    /\ rreq[s].pc = "getRatings"
    /\ \E st \in CalculatePlaceStats(ratings) :
          rreq' = [rreq EXCEPT ![s].stats = st, ![s].pc = "write"]
    /\ UNCHANGED <<ratings, placeDoc>>

\* updatePlaceStats: set() when the place was not there at the read,
\* update() otherwise, which throws when the document is gone
UpdatePlaceStatsWrite(s) ==
    /\ rreq[s].pc = "write"
    /\ placeDoc' = IF ~rreq[s].exists THEN [exists |-> TRUE, stats |-> rreq[s].stats]
                    ELSE IF placeDoc.exists THEN [placeDoc EXCEPT !.stats = rreq[s].stats]
                    ELSE placeDoc
    /\ REnd(s)
    /\ UNCHANGED ratings

\* updateRating: the rating is read; 'Rating not found' when it is gone.
\* updates is a Partial<Rating>: of its fields the categories and the
\* userAdjustmentFactor are carried, each present or absent
UpdateRatingGet(s, id, categories, af) ==
    /\ RFree(s)
    /\ id \in Existing(ratings)
    /\ rreq' = [rreq EXCEPT ![s] = [RIdle EXCEPT !.op = "updateRating", !.pc = "updateDoc",
                                                 !.id = id, !.categories = categories,
                                                 !.af = af]]
    /\ UNCHANGED <<ratings, placeDoc>>

\* updatesToApply = { ...updates }: a field of the updates replaces the stored one
Applied(stored, update) == IF update = {} THEN stored ELSE CHOOSE x \in update : TRUE

\* updateRating: the rating document is updated with every field of the
\* updates (update() throws when it is gone); with categories in the
\* updates the score is recalculated with the stored adjustment factor
\* and the place stats follow, without them the call ends
UpdateRatingUpdate(s) ==
    /\ rreq[s].pc = "updateDoc"
    /\ IF rreq[s].id \notin Existing(ratings)
         THEN REnd(s) /\ UNCHANGED ratings
         ELSE IF rreq[s].categories = NoCategories
           THEN /\ ratings' = [ratings EXCEPT ![rreq[s].id].userAdjustmentFactor =
                                                   Applied(@, rreq[s].af)]
                /\ REnd(s)
           ELSE /\ \E o \in CalculateOverallScore(rreq[s].categories,
                                                   ratings[rreq[s].id].userAdjustmentFactor) :
                     ratings' = [ratings EXCEPT ![rreq[s].id].categories = rreq[s].categories,
                                                ![rreq[s].id].overallScore = o,
                                                ![rreq[s].id].userAdjustmentFactor =
                                                    Applied(@, rreq[s].af)]
                /\ rreq' = [rreq EXCEPT ![s].pc = "getPlace"]
    /\ UNCHANGED placeDoc

\* deleteRating: the rating is read; 'Rating not found' when it is gone
DeleteRatingGet(s, id) ==
    /\ RFree(s)
    /\ id \in Existing(ratings)
    /\ rreq' = [rreq EXCEPT ![s] = [RIdle EXCEPT !.op = "deleteRating", !.pc = "deleteDoc",
                                                 !.id = id]]
    /\ UNCHANGED <<ratings, placeDoc>>

\* deleteRating: await this.ratingsCol.doc(ratingId).delete()
DeleteRatingDelete(s) ==
    /\ rreq[s].pc = "deleteDoc"
    /\ ratings' = [ratings EXCEPT ![rreq[s].id] = NoRating]
    /\ rreq' = [rreq EXCEPT ![s].pc = "recalcRatings"]
    /\ UNCHANGED placeDoc

\* recalculatePlaceStats: the ratings are read
RecalculatePlaceStatsGetRatings(s) ==
    /\ rreq[s].pc = "recalcRatings"
    /\ IF Existing(ratings) = {}
         THEN rreq' = [rreq EXCEPT ![s].pc = "deletePlace"]
         ELSE \E st \in CalculatePlaceStats(ratings) :
                 rreq' = [rreq EXCEPT ![s].stats = st, ![s].pc = "recalcWrite"]
    /\ UNCHANGED <<ratings, placeDoc>>

RecalculatePlaceStatsKeep(s) ==
    /\ rreq[s].pc = "deletePlace"
    /\ REnd(s)
    /\ UNCHANGED <<ratings, placeDoc>>

\* recalculatePlaceStats: no ratings were read, the place document is deleted
RecalculatePlaceStatsDelete(s) ==
    /\ rreq[s].pc = "deletePlace"
    /\ placeDoc' = [exists |-> FALSE, stats |-> NoStats]
    /\ REnd(s)
    /\ UNCHANGED ratings

\* recalculatePlaceStats: update() of the stats, which throws when the
\* document is gone
RecalculatePlaceStatsWrite(s) ==
    /\ rreq[s].pc = "recalcWrite"
    /\ placeDoc' = IF placeDoc.exists THEN [placeDoc EXCEPT !.stats = rreq[s].stats]
                    ELSE placeDoc
    /\ REnd(s)
    /\ UNCHANGED ratings

RatingOff == UNCHANGED <<apiVars, botVars, tallyVars, scoreVars, feedVars, callVars>>

RatingInit ==
    /\ ApiInit /\ BotIdleInit /\ TallyIdleInit /\ ScoreIdleInit /\ FeedIdleInit
    /\ ratings = <<>>
    /\ placeDoc = [exists |-> FALSE, stats |-> NoStats]
    /\ rreq = [s \in Slots |-> RIdle]
    /\ CallIdleInit

\* RatingSpec: rating calls that overlap; ratings are created with the
\* scenario's categories and updated to the other vector
RatingNext ==
    \/ \E s \in Slots, a \in RaterAFs : CreateRating(s, ScenarioCategories, a) /\ RatingOff
    \/ \E s \in Slots : UpdatePlaceStatsGetPlace(s) /\ RatingOff
    \/ \E s \in Slots : UpdatePlaceStatsGetRatings(s) /\ RatingOff
    \/ \E s \in Slots : UpdatePlaceStatsWrite(s) /\ RatingOff
    \/ \E s \in Slots, id \in 1..MaxRatings, c \in {Cat(1, 1, 1, 5, 5), NoCategories} :
          UpdateRatingGet(s, id, c, NoAF) /\ RatingOff
    \/ \E s \in Slots : UpdateRatingUpdate(s) /\ RatingOff
    \/ \E s \in Slots, id \in 1..MaxRatings : DeleteRatingGet(s, id) /\ RatingOff
    \/ \E s \in Slots : DeleteRatingDelete(s) /\ RatingOff
    \/ \E s \in Slots : RecalculatePlaceStatsGetRatings(s) /\ RatingOff
    \/ \E s \in Slots : RecalculatePlaceStatsDelete(s) /\ RatingOff
    \/ \E s \in Slots : RecalculatePlaceStatsWrite(s) /\ RatingOff

RatingSpec == RatingInit /\ [][RatingNext]_vars

\* RatingSeqSpec: rating calls one after the other, each run to completion
RatingSeqNext ==
    \/ \E c \in RatedCategories, a \in RaterAFs : CreateRating("r1", c, a) /\ RatingOff
    \/ UpdatePlaceStatsGetPlace("r1") /\ RatingOff
    \/ UpdatePlaceStatsGetRatings("r1") /\ RatingOff
    \/ UpdatePlaceStatsWrite("r1") /\ RatingOff
    \/ \E id \in 1..MaxRatings, c \in RatedCategories \cup {NoCategories} :
          UpdateRatingGet("r1", id, c, NoAF) /\ RatingOff
    \/ UpdateRatingUpdate("r1") /\ RatingOff
    \/ \E id \in 1..MaxRatings : DeleteRatingGet("r1", id) /\ RatingOff
    \/ DeleteRatingDelete("r1") /\ RatingOff
    \/ RecalculatePlaceStatsGetRatings("r1") /\ RatingOff
    \/ RecalculatePlaceStatsDelete("r1") /\ RatingOff
    \/ RecalculatePlaceStatsWrite("r1") /\ RatingOff

RatingSeqSpec == RatingInit /\ [][RatingSeqNext]_vars

---------------------------------------------------------------------------
(* Claims about the place aggregate                                        *)

\* avg (tenths) is the mean sum / n rounded to one decimal
IsRoundedMean(avg, sum, n) == 2 * (avg * n - sum) \in (0 - n)..n

\* stats is the aggregate of the ratings that exist
IsAggregateOf(stats, rs) ==
    /\ stats.totalRatings = Cardinality(Existing(rs))
    /\ IsRoundedMean(stats.avgOverallScore, SumScores(rs, Existing(rs)), Cardinality(Existing(rs)))
    /\ \A b \in {"introvert", "ambivert", "extrovert"} :
          LET of == {i \in Existing(rs) :
                        CASE b = "introvert" -> rs[i].userAdjustmentFactor <= -2
                          [] b = "extrovert" -> rs[i].userAdjustmentFactor >= 2
                          [] OTHER -> rs[i].userAdjustmentFactor \in -1..1}
          IN  /\ stats.byPersonality[b].count = Cardinality(of)
              /\ IF of = {} THEN stats.byPersonality[b].avgScore = 0
                  ELSE IsRoundedMean(stats.byPersonality[b].avgScore, SumScores(rs, of), Cardinality(of))

C14_NoStaleAggregate ==
    (RAllIdle /\ Existing(ratings) # {} /\ placeDoc.exists)
        => IsAggregateOf(placeDoc.stats, ratings)

---------------------------------------------------------------------------
(* GET /api/explore/places: the places-for-you feed.  The repository holds *)
(* the route twice: routes/explore.ts scores every rating adjusted for the *)
(* viewer, the other file scores the ratings of similar raters, weighted.  *)
(* Scores are in tenths, the confidence in percent as the response has it. *)

\* the nearby places number at most MaxPlaces
MaxPlaces == 3

Rating(c, af, score) == [categories |-> c, userAdjustmentFactor |-> af, overallScore |-> score]
AmbivertRating == Rating(ScenarioCategories, 0, 68)
IntrovertRating == Rating(ScenarioCategories, -5, 61)
LowRating == Rating(Cat(1, 1, 1, 5, 5), 0, 28)

\* the ratings a nearby place may have: none, some, more than ten
FeedRatingLists ==
    { <<>>, <<AmbivertRating>>, <<IntrovertRating>>, <<LowRating>>,
      <<AmbivertRating, IntrovertRating>>, <<IntrovertRating, LowRating>>,
      <<LowRating, AmbivertRating, IntrovertRating>>,
      [i \in 1..11 |-> AmbivertRating] }
ViewerAFs == {-5, 0, 5}
\* Math.min(parseInt(req.query.limit) || 20, 50)
Limits == {2, 20}

\* explore.ts: the sums the adjusted scores of the ratings can have
RECURSIVE AdjustedSums(_, _)
AdjustedSums(rs, userAF) ==
    IF rs = <<>> THEN {0}
    ELSE {a + b : a \in CalculateAdjustedScoreForViewer(
                            Head(rs).categories, Head(rs).userAdjustmentFactor, userAF),
                  b \in AdjustedSums(Tail(rs), userAF)}

\* Math.round(Math.min(n / 10, 1) * 100)
Confidence(n) == IF n >= 10 THEN 100 ELSE 10 * n

\* explore.ts: what is pushed for one place
Recommend(id, rs, userAF) ==
    IF rs = <<>>
      THEN {<<[id |-> id, predictedScore |-> 50, confidence |-> 0, totalRatings |-> 0,
               similarRatings |-> 0, isUnrated |-> TRUE]>>}
      ELSE {<<[id |-> id, predictedScore |-> p, confidence |-> Confidence(Len(rs)),
               totalRatings |-> Len(rs), similarRatings |-> Len(rs), isUnrated |-> FALSE]>> :
                p \in UNION {RoundTenth(sum, Len(rs)) : sum \in AdjustedSums(rs, userAF)}}

Abs(x) == IF x < 0 THEN 0 - x ELSE x

\* the other route file: ratings of raters within 0.4 of the viewer
SimilarRatings(rs, userAF) ==
    SelectSeq(rs, LAMBDA r : Abs(r.userAdjustmentFactor - userAF) <= 4)

\* the other route file: similarity squared, times 16
Weight(r, userAF) ==
    (4 - Abs(r.userAdjustmentFactor - userAF)) * (4 - Abs(r.userAdjustmentFactor - userAF))

RECURSIVE WeightedSum(_, _)
WeightedSum(rs, userAF) ==
    IF rs = <<>> THEN 0
    ELSE Head(rs).overallScore * Weight(Head(rs), userAF) + WeightedSum(Tail(rs), userAF)

RECURSIVE TotalWeight(_, _)
TotalWeight(rs, userAF) ==
    IF rs = <<>> THEN 0 ELSE Weight(Head(rs), userAF) + TotalWeight(Tail(rs), userAF)

\* the other route file: what is pushed for one place, nothing for a
\* place without ratings or without similar raters
RecommendSimilar(id, rs, userAF) ==
    LET similar == SimilarRatings(rs, userAF)
    IN  IF rs = <<>> \/ similar = <<>>
          THEN {<<>>}
          ELSE {<<[id |-> id, predictedScore |-> p, confidence |-> Confidence(Len(similar)),
                   totalRatings |-> Len(rs), similarRatings |-> Len(similar),
                   isUnrated |-> FALSE]>> :
                    p \in RoundTenth(WeightedSum(similar, userAF), TotalWeight(similar, userAF))}

\* for (const place of nearbyPlaces): the lists the loop can build
RECURSIVE Recommendations(_, _, _, _)
Recommendations(places, from, userAF, similarOnly) ==
    IF from > Len(places) THEN {<<>>}
    ELSE {one \o rest :
            one \in IF similarOnly THEN RecommendSimilar(from, places[from], userAF)
                                   ELSE Recommend(from, places[from], userAF),
            rest \in Recommendations(places, from + 1, userAF, similarOnly)}

SortScore(a) == a.predictedScore * a.confidence

CompareAscending(a, b) ==
    IF a.isUnrated /\ ~b.isUnrated THEN 1
    ELSE IF ~a.isUnrated /\ b.isUnrated THEN -1
    ELSE IF a.isUnrated /\ b.isUnrated THEN 0
    ELSE SortScore(a) - SortScore(b)

\* explore.ts: the comparator handed to recommendations.sort
CompareRecommendations(a, b) ==
    IF a.isUnrated /\ ~b.isUnrated THEN 1
    ELSE IF ~a.isUnrated /\ b.isUnrated THEN -1
    ELSE IF a.isUnrated /\ b.isUnrated THEN 0
    ELSE SortScore(b) - SortScore(a)

\* the other route file: its comparator
CompareByScore(a, b) == SortScore(b) - SortScore(a)

\* Array.prototype.sort is stable: x goes behind everything that does not
\* compare greater than it
InsertSorted(x, sorted, similarOnly) ==
    LET after == {k \in 1..Len(sorted) :
                    (IF similarOnly THEN CompareByScore(sorted[k], x)
                                    ELSE CompareRecommendations(sorted[k], x)) > 0}
        at == IF after = {} THEN Len(sorted) + 1
              ELSE CHOOSE k \in after : \A j \in after : k <= j
    IN  SubSeq(sorted, 1, at - 1) \o <<x>> \o SubSeq(sorted, at, Len(sorted))

RECURSIVE SortRecommendations(_, _)
SortRecommendations(recs, similarOnly) ==
    IF recs = <<>> THEN <<>>
    ELSE InsertSorted(recs[Len(recs)],
                      SortRecommendations(SubSeq(recs, 1, Len(recs) - 1), similarOnly),
                      similarOnly)

\* recommendations.slice(0, limit)
Slice(recs, limit) == SubSeq(recs, 1, Min(limit, Len(recs)))

NotAsked == [route |-> "none", data |-> <<>>]

\* routes/explore.ts: GET /places
GetPlaces(limit) ==
    /\ fOut = NotAsked
    /\ \E recs \in Recommendations(fPlaces, 1, fViewerAF, FALSE) :
          fOut' = [route |-> "explore", data |-> Slice(SortRecommendations(recs, FALSE), limit)]
    /\ UNCHANGED <<fPlaces, fViewerAF>>

\* the other route file: GET /places
GetPlacesSimilar(limit) ==
    /\ fOut = NotAsked
    /\ \E recs \in Recommendations(fPlaces, 1, fViewerAF, TRUE) :
          fOut' = [route |-> "similar", data |-> Slice(SortRecommendations(recs, TRUE), limit)]
    /\ UNCHANGED <<fPlaces, fViewerAF>>

FeedInit ==
    /\ ApiInit /\ BotIdleInit /\ TallyIdleInit /\ RatingIdleInit /\ ScoreIdleInit
    /\ fPlaces \in UNION {[1..n -> FeedRatingLists] : n \in 1..MaxPlaces}
    /\ fViewerAF \in ViewerAFs
    /\ fOut = NotAsked

FeedNext ==
    \/ \E l \in Limits : GetPlaces(l) /\ UNCHANGED <<apiVars, botVars, tallyVars, ratingVars, scoreVars>>
    \/ \E l \in Limits : GetPlacesSimilar(l) /\ UNCHANGED <<apiVars, botVars, tallyVars, ratingVars, scoreVars>>

FeedSpec == FeedInit /\ [][FeedNext]_vars

---------------------------------------------------------------------------
(* The feed's scores and order.                                            *)

FeedAnswered == fOut.route # "none"
RatingsOf(rec) == fPlaces[rec.id]
Listed(k) == fOut.data[k]

\* C19: a listed place with at least one rating has as predicted score the
\* unweighted mean (to one decimal) of calculateAdjustedScoreForViewer over
\* all of its ratings, and as confidence min(ratingCount / 10, 1) of the
\* count of all of its ratings.
C19_PredictedIsMeanOfAll ==
    FeedAnswered =>
        \A k \in 1..Len(fOut.data) :
            RatingsOf(Listed(k)) # <<>> =>
               /\ \E sum \in AdjustedSums(RatingsOf(Listed(k)), fViewerAF) :
                     IsRoundedMean(Listed(k).predictedScore, sum, Len(RatingsOf(Listed(k))))
               /\ Listed(k).confidence = Min(10 * Len(RatingsOf(Listed(k))), 100)

\* C20: in the returned list every place without ratings (listed with
\* predicted score 5.0 and confidence 0) comes after every place with
\* ratings, and the places with ratings are in non-increasing order of
\* predictedScore x confidence.
C20_FeedOrder ==
    FeedAnswered =>
        /\ \A k \in 1..Len(fOut.data) :
              RatingsOf(Listed(k)) = <<>> =>
                  Listed(k).predictedScore = 50 /\ Listed(k).confidence = 0
        /\ \A j, k \in 1..Len(fOut.data) :
              j < k =>
                 /\ ~(RatingsOf(Listed(j)) = <<>> /\ RatingsOf(Listed(k)) # <<>>)
                 /\ (RatingsOf(Listed(j)) # <<>> /\ RatingsOf(Listed(k)) # <<>>) =>
                       Listed(j).predictedScore * Listed(j).confidence
                           >= Listed(k).predictedScore * Listed(k).confidence

\* an unrated place that was first nearby is listed last, behind two rated
\* places that changed places
C20_Witness ==
    /\ fOut.route = "explore"
    /\ Len(fOut.data) = 3
    /\ Listed(1).id = 3 /\ Listed(2).id = 2 /\ Listed(3).id = 1
    /\ fPlaces[1] = <<>>
    /\ Listed(1).predictedScore * Listed(1).confidence
          > Listed(2).predictedScore * Listed(2).confidence

---------------------------------------------------------------------------
(* Claims about the group's membership and its archiving (Spec)            *)

\* C22: removeMember applied to the group's creator while the group has
\* other members is rejected: it throws, leaves no request that would
\* write, and members, votes and status are as they were.
C22_CreatorCannotLeave ==
    [][\A s \in Slots :
          /\ (RemoveMemberRead(s, createdBy) /\ members \ {createdBy} # {})
                => /\ resp' = ErrCreatorLeave
                   /\ req'[s] = Idle
                   /\ members' = members /\ votes' = votes /\ status' = status
          /\ (RemoveMemberUpdate1(s) /\ req[s].user = createdBy /\ members \ {createdBy} # {})
                => members' = members]_vars

\* C23: after createGroup and any sequence of addMember and removeMember
\* calls that have run to completion, the members set is non-empty and
\* contains the group's creator.
C23_CreatorIsMember ==
    (gExists /\ AllIdle) => (members # {} /\ createdBy \in members)

---------------------------------------------------------------------------
(* GroupService, one call after the other.  getVotingResults is a read of  *)
(* the group document followed by the tally of its votes.                  *)

\* Object.entries(group.votes), in the order of the member ids
VoteEntries(v) ==
    LET voted == SelectSeq(TallyVoters, LAMBDA u : u \in DOMAIN v)
    IN  [k \in 1..Len(voted) |-> [userId |-> voted[k], picks |-> v[voted[k]]]]

GetVotingResultsWhileActive ==
    /\ gExists
    /\ tVotes' = [status |-> status, entries |-> VoteEntries(votes)]
    /\ tApi' = IF status = "active" THEN GetVotingResults(VoteEntries(votes)) ELSE <<>>
    /\ UNCHANGED <<apiVars, tBot, tDone>>

\* getVotingResults: tVotes keeps the document as the call read it, tApi
\* the results it returned
GetVotingResultsCall ==
    /\ gExists
    /\ tVotes' = [status |-> status, entries |-> VoteEntries(votes)]
    /\ tApi' = GetVotingResults(VoteEntries(votes))
    /\ UNCHANGED <<apiVars, tBot, tDone>>

\* a ballot of one place, a full ballot and one that names a place twice
RepeatBallot == <<"A", "A">>
SeqBallots == {CycleBallot(1), CycleBallot(MaxVotes), RepeatBallot}

GroupSeqNext ==
    \/ \E m \in SUBSET Users : CreateGroup(m) /\ BotOff
    \/ \E u \in Users : AddMemberRead("r1", u) /\ BotOff
    \/ AddMemberUpdate("r1") /\ BotOff
    \/ \E u \in Users : RemoveMemberRead("r1", u) /\ BotOff
    \/ RemoveMemberUpdate1("r1") /\ BotOff
    \/ RemoveMemberUpdate2("r1") /\ BotOff
    \/ \E u \in Users, b \in SeqBallots : CastVotesRead("r1", u, b) /\ BotOff
    \/ CastVotesUpdate("r1") /\ BotOff
    \/ \E r \in FinalizeChoices : FinalizeSelection(r) /\ BotOff
    \/ ArchiveGroup /\ BotOff
    \/ \E u \in Users : DisbandGroup(u) /\ BotOff
    \/ GetVotingResultsCall /\ UNCHANGED <<botVars, ratingVars, scoreVars, feedVars>>

GroupSeqSpec == Init /\ [][GroupSeqNext]_vars

\* C24: disbandGroup by a user who is not the creator is rejected and
\* leaves the status as it was; by the creator it sets the status to
\* archived.
C24_DisbandByCreatorOnly ==
    [][\A u \in Users :
          DisbandGroup(u)
              => IF u # createdBy
                   THEN resp' = ErrOnlyCreator /\ status' = status
                   ELSE resp' = None /\ status' = "archived"]_vars

\* a disband by someone else has just been rejected, the group still active
C24_Witness ==
    /\ gExists
    /\ resp = ErrOnlyCreator
    /\ status = "active"
    /\ Cardinality(members) > 1

\* the (member, rank) pairs at which the votes map names place p
NamingsOf(v, p) ==
    UNION {{<<u, j>> : j \in {j \in 1..Len(v[u]) : v[u][j] = p}} : u \in DOMAIN v}

\* C25: getVotingResults changes no field of the group, and what it
\* returns is determined by the votes map alone, whatever the status: for
\* each place named, the rank points summed and the (member, rank) pairs.
C25_ResultsArePureView ==
    [][GetVotingResultsCall
          => /\ UNCHANGED <<gExists, createdBy, members, votes, status, finalPlace>>
             /\ DOMAIN tApi' = {p \in Places : NamingsOf(votes, p) # {}}
             /\ \A p \in DOMAIN tApi' :
                   /\ tApi'[p].score = SumRankPoints(NamingsOf(votes, p))
                   /\ Len(tApi'[p].votes) = Cardinality(NamingsOf(votes, p))
                   /\ {tApi'[p].votes[k] : k \in 1..Len(tApi'[p].votes)}
                         = {[userId |-> x[1], rank |-> x[2]] : x \in NamingsOf(votes, p)}]_vars

\* results were returned for an archived group with votes on record
C25_Witness ==
    /\ tApi # <<>>
    /\ tVotes.status = "archived"
    /\ Len(tVotes.entries) = 2
    /\ DOMAIN tApi = {"A", "B", "C"}

\* C27: a member's vote is not lost because another member is removed:
\* the votes update of a removeMember (of a member whose vote was on
\* record) leaves the vote of every other member on record as it is.
C27_VoteSurvivesRemoval ==
    [][\A s \in Slots :
          (RemoveMemberUpdate2(s) /\ req[s].user \in DOMAIN req[s].snapVotes)
              => \A x \in DOMAIN votes \ {req[s].user} :
                    x \in DOMAIN votes' /\ votes'[x] = votes[x]]_vars

NoRepeat(picks) == \A i, j \in 1..Len(picks) : i # j => picks[i] # picks[j]

\* C28: no stored ballot names the same place twice, in the API's votes
\* map and in the bot session's votes.
C28_BallotsNameDistinctPlaces ==
    /\ \A u \in DOMAIN votes : NoRepeat(votes[u])
    /\ \A i \in 1..Len(sVotes) : NoRepeat(sVotes[i].picks)

---------------------------------------------------------------------------
(* The rater as the viewer of their own rating (ScoreSpec)                 *)

\* C29: a rater viewing their own rating sees the score stored at
\* submission: calculateAdjustedScoreForViewer(c, a, a) is a value
\* calculateOverallScore(c, a) gives.
C29_OwnRatingKeepsScore ==
    ScoreDone => scOut.forSelf \in CalculateOverallScore(scCategories, scAF)

---------------------------------------------------------------------------
(* Edits of a rating, one call after the other, with every shape of        *)
(* updates the signature of updateRating admits.                           *)

\* the updates a caller may pass: categories or none, an adjustment
\* factor or none
UpdateAFs == {NoAF} \cup {{a} : a \in RaterAFs}

RatingEditNext ==
    \/ \E a \in RaterAFs : CreateRating("r1", ScenarioCategories, a) /\ RatingOff
    \/ UpdatePlaceStatsGetPlace("r1") /\ RatingOff
    \/ UpdatePlaceStatsGetRatings("r1") /\ RatingOff
    \/ UpdatePlaceStatsWrite("r1") /\ RatingOff
    \/ \E id \in 1..MaxRatings, c \in {Cat(1, 1, 1, 5, 5), NoCategories}, af \in UpdateAFs :
          UpdateRatingGet("r1", id, c, af) /\ RatingOff
    \/ UpdateRatingUpdate("r1") /\ RatingOff

RatingEditSpec == RatingInit /\ [][RatingEditNext]_vars

\* C26: the rater's adjustment factor stored with a rating is an immutable
\* snapshot: an updateRating call leaves it as it is, and when the call
\* carries categories the new score is that of the new categories with
\* the stored factor.
C26_RaterAFImmutable ==
    [][\A s \in Slots :
          (UpdateRatingUpdate(s) /\ rreq[s].id \in Existing(ratings))
              => /\ ratings'[rreq[s].id].userAdjustmentFactor
                       = ratings[rreq[s].id].userAdjustmentFactor
                 /\ rreq[s].categories # NoCategories
                       => /\ ratings'[rreq[s].id].categories = rreq[s].categories
                          /\ ratings'[rreq[s].id].overallScore
                                \in CalculateOverallScore(rreq[s].categories,
                                        ratings[rreq[s].id].userAdjustmentFactor)]_vars

---------------------------------------------------------------------------
(* createRating and deleteRating as whole calls: after the place stats     *)
(* the place document is read again and synced to (or deleted from) the    *)
(* search index, and createRating then updates the rater's user document.  *)
(* An error thrown by a step ends the call with that error.                *)

\* the search index: configured and answering, configured and erroring,
\* not configured
AlgoliaModes == {"configured", "failing", "missing"}

ErrAlgoliaMissing == "Algolia credentials missing"
ErrAlgoliaNotConfigured == "Algolia credentials not configured"
ErrNoDocument == "NOT_FOUND"

TIdle == [op |-> "idle", pc |-> "idle", count |-> 0]
TAllIdle == RAllIdle /\ \A s \in Slots : tail[s] = TIdle
\* the steps up to the place stats of slot s have all run
StatsDone(s) == tail[s].pc = "stats" /\ rreq[s] = RIdle

Throw(s, err) ==
    /\ tail' = [tail EXCEPT ![s] = TIdle]
    /\ rresp' = [rresp EXCEPT ![s] = err]
Return(s) ==
    /\ tail' = [tail EXCEPT ![s] = TIdle]
    /\ rresp' = [rresp EXCEPT ![s] = Ok]

\* createRating is called
CreateRatingCall(s, categories, userAdjustmentFactor) ==
    /\ tail[s] = TIdle
    /\ CreateRating(s, categories, userAdjustmentFactor)
    /\ tail' = [tail EXCEPT ![s] = [TIdle EXCEPT !.op = "createRating", !.pc = "stats"]]
    /\ rresp' = [rresp EXCEPT ![s] = None]
    /\ UNCHANGED <<algolia, userDoc, created>>

\* deleteRating is called
DeleteRatingCall(s, id) ==
    /\ tail[s] = TIdle
    /\ DeleteRatingGet(s, id)
    /\ tail' = [tail EXCEPT ![s] = [TIdle EXCEPT !.op = "deleteRating", !.pc = "stats"]]
    /\ rresp' = [rresp EXCEPT ![s] = None]
    /\ UNCHANGED <<algolia, userDoc, created>>

\* updatePlaceStats: the write; update() of a document that is gone throws
UpdatePlaceStatsWriteCall(s) ==
    /\ UpdatePlaceStatsWrite(s)
    /\ IF rreq[s].exists /\ ~placeDoc.exists
         THEN Throw(s, ErrNoDocument)
         ELSE UNCHANGED <<tail, rresp>>
    /\ UNCHANGED <<algolia, userDoc, created>>

\* recalculatePlaceStats: the write; update() of a document that is gone throws
RecalculatePlaceStatsWriteCall(s) ==
    /\ RecalculatePlaceStatsWrite(s)
    /\ IF ~placeDoc.exists
         THEN Throw(s, ErrNoDocument)
         ELSE UNCHANGED <<tail, rresp>>
    /\ UNCHANGED <<algolia, userDoc, created>>

\* syncPlaceToAlgolia: throws without credentials; an error of saveObject
\* is caught and logged
SyncPlaceToAlgoliaThrows == algolia = "missing"
\* deletePlaceFromAlgolia: throws without credentials; an error of
\* deleteObject is caught and logged
DeletePlaceFromAlgoliaThrows == algolia = "missing"

\* createRating: the place document is read and, when it exists, synced
CreateRatingSync(s) ==
    /\ StatsDone(s) /\ tail[s].op = "createRating"
    /\ IF placeDoc.exists /\ SyncPlaceToAlgoliaThrows
         THEN Throw(s, ErrAlgoliaMissing)
         ELSE tail' = [tail EXCEPT ![s].pc = "userGet"] /\ UNCHANGED rresp
    /\ UNCHANGED <<ratings, placeDoc, rreq, algolia, userDoc, created>>

\* updateUserRatingStats: const userDoc = await ...get()
UpdateUserRatingStatsGet(s) ==
    /\ tail[s].pc = "userGet"
    /\ IF userDoc.exists
         THEN /\ tail' = [tail EXCEPT ![s].pc = "userUpdate",
                                      ![s].count = userDoc.totalRatingsCount]
              /\ UNCHANGED <<rresp, created>>
         ELSE Return(s) /\ created' = created + 1
    /\ UNCHANGED <<ratings, placeDoc, rreq, algolia, userDoc>>

\* updateUserRatingStats: (user?.totalRatingsCount || 0) + 1
AddOne(count) == count + 1

\* updateUserRatingStats: the update; createRating returns the rating
UpdateUserRatingStatsUpdate(s) ==
    /\ tail[s].pc = "userUpdate"
    /\ userDoc' = [userDoc EXCEPT !.totalRatingsCount = AddOne(tail[s].count)]
    /\ Return(s)
    /\ created' = created + 1
    /\ UNCHANGED <<ratings, placeDoc, rreq, algolia>>

\* deleteRating: the place document is read; it is deleted from the index
\* when it is gone and synced otherwise
DeleteRatingSync(s) ==
    /\ StatsDone(s) /\ tail[s].op = "deleteRating"
    /\ IF ~placeDoc.exists
         THEN IF DeletePlaceFromAlgoliaThrows
                THEN Throw(s, ErrAlgoliaNotConfigured) ELSE Return(s)
         ELSE IF SyncPlaceToAlgoliaThrows
                THEN Throw(s, ErrAlgoliaMissing) ELSE Return(s)
    /\ UNCHANGED <<ratings, placeDoc, rreq, algolia, userDoc, created>>

CallOff == UNCHANGED <<apiVars, botVars, tallyVars, scoreVars, feedVars>>
KeepCall == UNCHANGED callVars

RatingCallInit ==
    /\ ApiInit /\ BotIdleInit /\ TallyIdleInit /\ ScoreIdleInit /\ FeedIdleInit
    /\ ratings = <<>>
    /\ placeDoc = [exists |-> FALSE, stats |-> NoStats]
    /\ rreq = [s \in Slots |-> RIdle]
    /\ algolia \in AlgoliaModes
    /\ userDoc = [exists |-> TRUE, totalRatingsCount |-> 0]
    /\ tail = [s \in Slots |-> TIdle]
    /\ rresp = [s \in Slots |-> None]
    /\ created = 0

\* RatingCallSpec: createRating and deleteRating calls of one rater for
\* one place, overlapping
RatingCallNext ==
    \/ \E s \in Slots : CreateRatingCall(s, ScenarioCategories, 0) /\ CallOff
    \/ \E s \in Slots : UpdatePlaceStatsGetPlace(s) /\ KeepCall /\ CallOff
    \/ \E s \in Slots : UpdatePlaceStatsGetRatings(s) /\ KeepCall /\ CallOff
    \/ \E s \in Slots : UpdatePlaceStatsWriteCall(s) /\ CallOff
    \/ \E s \in Slots : CreateRatingSync(s) /\ CallOff
    \/ \E s \in Slots : UpdateUserRatingStatsGet(s) /\ CallOff
    \/ \E s \in Slots : UpdateUserRatingStatsUpdate(s) /\ CallOff
    \/ \E s \in Slots, id \in 1..MaxRatings : DeleteRatingCall(s, id) /\ CallOff
    \/ \E s \in Slots : DeleteRatingDelete(s) /\ KeepCall /\ CallOff
    \/ \E s \in Slots : RecalculatePlaceStatsGetRatings(s) /\ KeepCall /\ CallOff
    \/ \E s \in Slots : RecalculatePlaceStatsDelete(s) /\ KeepCall /\ CallOff
    \/ \E s \in Slots : RecalculatePlaceStatsWriteCall(s) /\ CallOff
    \/ \E s \in Slots : DeleteRatingSync(s) /\ CallOff

RatingCallSpec == RatingCallInit /\ [][RatingCallNext]_vars

\* C21: the search index being absent or in error is never surfaced as a
\* failure of a rating call: no createRating or deleteRating call ends
\* with an error of the index.
C21_IndexFailureNotSurfaced ==
    \A s \in Slots : rresp[s] \notin {ErrAlgoliaMissing, ErrAlgoliaNotConfigured}

\* C30: once the createRating calls of the rater have all returned,
\* overlapping or not, totalRatingsCount has grown by the number of calls
\* that returned.
C30_CountsEveryRating ==
    TAllIdle => userDoc.totalRatingsCount = created

====
